---- MODULE Spec2Model ----
(***************************************************************************)
(* A model of t9_result::Result<T, E> (include/t9_result/result.h) and of  *)
(* the payload types its tests use (int and the move-only                  *)
(* NoncopyableObject of tests/result_test.cpp).                            *)
(*                                                                         *)
(* A payload is a record [kind, id]: kind "int" is a plain int, kind "obj" *)
(* is a NoncopyableObject whose m_id is id.  A Result is a record          *)
(* [T, E, index, value]: T and E are the payload kinds it was instantiated *)
(* with, index is the index of the active alternative of m_value and value *)
(* is the payload of that alternative.                                     *)
(***************************************************************************)
EXTENDS Integers, Sequences, FiniteSets

VARIABLES
    ndebug,     \* TRUE when the build defines NDEBUG (assert compiled out)
    res,        \* the Result objects of the caller: "r" and the product "m"
    status,     \* "running", or how the program ended
    ret,        \* the value the last call returned (read through, for a reference)
    retRef,     \* the object the last call returned a reference to
    dflt,       \* the caller's default_value object after unwrap_or
    calls,      \* the callback invocations the last call expression made, in order
    copied,     \* copy-constructions of a payload made by the last call
    consumed,   \* the objects an ownership-taking operation was called on
    taken,      \* per object, the payload unwrap / unwrap_err last moved out of it
    made,       \* how the caller built r: the factory and the value given to it
    last        \* the last call: its name, target, arguments and pre-state

vars == <<ndebug, res, status, ret, retRef, dflt, calls, copied, consumed, taken, made, last>>

(* ------------------------------ bounds -------------------------------- *)

\* payload ids range over 1..MaxId
MaxId == 2

(* --------------------------- payload types ---------------------------- *)

Kinds == {"int", "obj"}

\* NoncopyableObject::m_id = 0, the value a moved-from object is left with
Sentinel == 0

Payload(k, i) == [kind |-> k, id |-> i]

NoValue == Payload("none", 0)

Bool(b) == Payload("bool", IF b THEN 1 ELSE 0)

\* NoncopyableObject deletes its copy constructor; int is copyable
CopyConstructible(k) == k = "int"

\* the object a move-construction builds from p
MovedTo(p) == p

\* a move constructor that copies m_id and leaves the source as it was
MovedFrom_Duplicate(p) == p

\* what the move-construction leaves in p: NoncopyableObject(NoncopyableObject&&)
\* swaps with a fresh m_id = 0; moving an int copies it
MovedFrom(p) == IF p.kind = "obj" THEN [p EXCEPT !.id = Sentinel] ELSE p

(* ------------------------- Ok, Err and factories ---------------------- *)

\* Ok(T&& value) : m_value(std::move(value)); copies counts the payload
\* copy-constructions the wrapper's construction made
Ok(v) == [tag |-> "Ok", m_value |-> MovedTo(v), copies |-> 0]

\* Ok(const T& value) : m_value(value), chosen for an lvalue argument
OkCopy(v) == [tag |-> "Ok", m_value |-> v, copies |-> 1]

\* Err(T&& value) : m_value(std::move(value))
Err(v) == [tag |-> "Err", m_value |-> MovedTo(v), copies |-> 0]

\* Err(const T& value) : m_value(value), chosen for an lvalue argument
ErrCopy(v) == [tag |-> "Err", m_value |-> v, copies |-> 1]

\* return value; of a by-value parameter: converted through Ok(T&&)
make_ok(v) == Ok(v)

\* return T{std::forward<Args>(args)...};
make_ok_with(k, i) == Ok(Payload(k, i))

make_err(v) == Err(v)

make_err_with(k, i) == Err(Payload(k, i))

(* ------------------------------- Result ------------------------------- *)

\* std::variant<std::monostate, Ok<T>, Err<E>>: the alternatives' indices
Monostate == 0
OkIdx == 1
ErrIdx == 2

NoResult == [T |-> "none", E |-> "none", index |-> Monostate, value |-> NoValue]

\* Result(Ok<T> ok) : m_value(std::move(ok))
ResultFromOk(ok, e) ==
    [T |-> ok.m_value.kind, E |-> e, index |-> OkIdx, value |-> MovedTo(ok.m_value)]

\* a constructor that never stores the wrapper: m_value stays monostate
ResultFromErr_Unset(err, t) ==
    [T |-> t, E |-> err.m_value.kind, index |-> Monostate, value |-> MovedTo(err.m_value)]

\* Result(Err<E> err) : m_value(std::move(err))
ResultFromErr(err, t) ==
    [T |-> t, E |-> err.m_value.kind, index |-> ErrIdx, value |-> MovedTo(err.m_value)]

is_ok(self) == self.index = OkIdx

is_err(self) == self.index = ErrIdx

(* ------------------------- contract checking -------------------------- *)

\* the accessor without its assert
Check_NoAssert(nd, cond, holds) == IF ~holds THEN "bad_variant_access" ELSE "running"

\* assert(cond) followed by std::get<Alt>(m_value): with assertions enabled a
\* false cond aborts; otherwise std::get on another alternative throws
\* std::bad_variant_access, which ends the program as well
Check(nd, cond, holds) ==
    IF ~nd /\ ~cond THEN "assert_failed"
    ELSE IF ~holds THEN "bad_variant_access"
    ELSE "running"

\* the outcome of an accessor: how the call ended, what it returned, the
\* Result it left behind and the caller's default_value object
Outcome(st, rv, self, d) == [status |-> st, ret |-> rv, self |-> self, dflt |-> d]

(* ------------------------ ownership-taking access --------------------- *)

\* an unwrap that returns the member after moving out of it
unwrap_AfterMove(self, nd) ==
    LET st == Check(nd, is_ok(self), self.index = OkIdx) IN
    IF st # "running" THEN Outcome(st, NoValue, self, NoValue)
    ELSE Outcome("running", MovedFrom(self.value),
                 [self EXCEPT !.value = MovedFrom(@)], NoValue)

\* T unwrap()
unwrap(self, nd) ==
    LET st == Check(nd, is_ok(self), self.index = OkIdx) IN
    IF st # "running" THEN Outcome(st, NoValue, self, NoValue)
    ELSE Outcome("running", MovedTo(self.value),
                 [self EXCEPT !.value = MovedFrom(@)], NoValue)

\* an unwrap_or that returns the default whenever one is given
unwrap_or_Default(self, nd, d) == Outcome("running", MovedTo(d), self, MovedFrom(d))

\* T unwrap_or(T&& default_value)
unwrap_or(self, nd, d) ==
    IF is_ok(self)
    THEN [unwrap(self, nd) EXCEPT !.dflt = d]
    ELSE Outcome("running", MovedTo(d), self, MovedFrom(d))

\* E unwrap_err()
unwrap_err(self, nd) ==
    LET st == Check(nd, is_err(self), self.index = ErrIdx) IN
    IF st # "running" THEN Outcome(st, NoValue, self, NoValue)
    ELSE Outcome("running", MovedTo(self.value),
                 [self EXCEPT !.value = MovedFrom(@)], NoValue)

(* ---------------------- non-consuming reference access ---------------- *)

\* T& ref_ok()
ref_ok(self, nd) ==
    LET st == Check(nd, is_ok(self), self.index = OkIdx) IN
    IF st # "running" THEN Outcome(st, NoValue, self, NoValue)
    ELSE Outcome("running", self.value, self, NoValue)

\* const T& ref_ok() const
ref_ok_const(self, nd) ==
    LET st == Check(nd, is_ok(self), self.index = OkIdx) IN
    IF st # "running" THEN Outcome(st, NoValue, self, NoValue)
    ELSE Outcome("running", self.value, self, NoValue)

\* E& ref_err()
ref_err(self, nd) ==
    LET st == Check(nd, is_err(self), self.index = ErrIdx) IN
    IF st # "running" THEN Outcome(st, NoValue, self, NoValue)
    ELSE Outcome("running", self.value, self, NoValue)

\* const E& ref_err() const
ref_err_const(self, nd) ==
    LET st == Check(nd, is_err(self), self.index = ErrIdx) IN
    IF st # "running" THEN Outcome(st, NoValue, self, NoValue)
    ELSE Outcome("running", self.value, self, NoValue)

(* ------------------------------ callbacks ----------------------------- *)

\* the mapping callbacks: [](int x) { return x * 2; } of the tests, and a
\* second one that tells a call from no call on every payload
MapFns == {"double", "inc"}

Apply(f, p) == Payload("int", IF f = "double" THEN p.id * 2 ELSE p.id + 1)

\* one callback invocation: which callback, and the id of the payload it saw
Call(f, p) == [fn |-> f, arg |-> p.id]

\* the and_then callbacks of the tests: ok_fn returns make_ok(x * 2), err_fn
\* returns make_err(x * 2), as a Result<int, E>
ThenFns == {"ok_fn", "err_fn"}

ApplyThen(g, p, e) ==
    IF g = "ok_fn"
    THEN ResultFromOk(make_ok(Payload("int", p.id * 2)), e)
    ELSE ResultFromErr(make_err_with(e, p.id * 2), "int")

\* the observing callbacks of the tests: called = x and called += x
InspectFns == {"set", "add"}

(* ----------------------------- combinators ---------------------------- *)

\* a move constructor that empties the source: *this is left monostate
MoveSelf_Reset(self) ==
    [to |-> [self EXCEPT !.value = MovedTo(@)],
     from |-> [self EXCEPT !.index = Monostate, !.value = NoValue]]

\* Result self = std::move(*this): the implicit move constructor moves the
\* active alternative; the source keeps its index and the moved-from payload
MoveSelf(self) ==
    [to |-> [self EXCEPT !.value = MovedTo(@)],
     from |-> [self EXCEPT !.value = MovedFrom(@)]]

\* the outcome of a consuming combinator: how the call ended, what is left in
\* *this, the Result returned, the callback invocations made and the payload
\* copy-constructions made
Combined(st, from, out, cs, n) ==
    [status |-> st, self |-> from, out |-> out, calls |-> cs, copied |-> n]

\* a map that applies f to whichever payload the Result holds
map_BothBranches(self, f) ==
    LET mv == MoveSelf(self) IN
    Combined("running", mv.from,
             ResultFromOk(make_ok(Apply(f, mv.to.value)), self.E),
             <<Call(f, mv.to.value)>>, 0)

\* auto map(F&& f) -> Result<decltype(f(std::declval<T>())), E>
map(self, f) ==
    LET mv == MoveSelf(self) IN
    IF is_ok(mv.to)
    THEN Combined("running", mv.from,
                  ResultFromOk(make_ok(Apply(f, mv.to.value)), self.E),
                  <<Call(f, mv.to.value)>>, 0)
    ELSE IF mv.to.index # ErrIdx
    THEN Combined("bad_variant_access", mv.from, NoResult, <<>>, 0)
    ELSE LET err == ErrCopy(mv.to.value) IN
         Combined("running", mv.from, ResultFromErr(err, "int"), <<>>, err.copies)

\* auto map_err(F&& f) -> Result<T, decltype(f(std::declval<E>()))>
map_err(self, f) ==
    LET mv == MoveSelf(self) IN
    IF is_err(mv.to)
    THEN Combined("running", mv.from,
                  ResultFromErr(make_err(Apply(f, mv.to.value)), self.T),
                  <<Call(f, mv.to.value)>>, 0)
    ELSE IF mv.to.index # OkIdx
    THEN Combined("bad_variant_access", mv.from, NoResult, <<>>, 0)
    ELSE LET ok == OkCopy(mv.to.value) IN
         Combined("running", mv.from, ResultFromOk(ok, "int"), <<>>, ok.copies)

\* an and_then that wraps the payload of what f returned as a success
and_then_Rewrap(self, g) ==
    LET mv == MoveSelf(self) IN
    IF is_ok(mv.to)
    THEN Combined("running", mv.from,
                  ResultFromOk(make_ok(ApplyThen(g, mv.to.value, self.E).value), self.E),
                  <<Call(g, mv.to.value)>>, 0)
    ELSE LET err == ErrCopy(mv.to.value) IN
         Combined("running", mv.from, ResultFromErr(err, "int"), <<>>, err.copies)

\* auto and_then(F&& f) -> decltype(f(std::declval<T>()))
and_then(self, g) ==
    LET mv == MoveSelf(self) IN
    IF is_ok(mv.to)
    THEN Combined("running", mv.from, ApplyThen(g, mv.to.value, self.E),
                  <<Call(g, mv.to.value)>>, 0)
    ELSE IF mv.to.index # ErrIdx
    THEN Combined("bad_variant_access", mv.from, NoResult, <<>>, 0)
    ELSE LET err == ErrCopy(mv.to.value) IN
         Combined("running", mv.from, ResultFromErr(err, "int"), <<>>, err.copies)

\* the outcome of an observing combinator on object o of the caller's objects
\* h: the objects after the call, the callback invocations made so far in the
\* call expression, and the object whose reference is returned
Inspected(h, cs, o) == [res |-> h, calls |-> cs, ref |-> o]

\* an inspect_ok without the is_ok() test
inspect_ok_Unchecked(h, cs, o, f) == Inspected(h, Append(cs, Call(f, h[o].value)), o)

\* Result& inspect_ok(F&& f)
inspect_ok(h, cs, o, f) ==
    IF is_ok(h[o])
    THEN Inspected(h, Append(cs, Call(f, h[o].value)), o)
    ELSE Inspected(h, cs, o)

\* Result& inspect_err(F&& f)
inspect_err(h, cs, o, f) ==
    IF is_err(h[o])
    THEN Inspected(h, Append(cs, Call(f, h[o].value)), o)
    ELSE Inspected(h, cs, o)

(* ------------------------------- state -------------------------------- *)

Objs == {"r", "m"}

Ids == 1..MaxId

Factories == {"make_ok", "make_ok_with", "make_err", "make_err_with"}

\* Result<T, E> r = how(i): the Result a caller constructs from a value or in place
Construct(how, t, e, i) ==
    CASE how = "make_ok" -> ResultFromOk(make_ok(Payload(t, i)), e)
      [] how = "make_ok_with" -> ResultFromOk(make_ok_with(t, i), e)
      [] how = "make_err" -> ResultFromErr(make_err(Payload(e, i)), t)
      [] how = "make_err_with" -> ResultFromErr(make_err_with(e, i), t)

NoCall ==
    [op |-> "none", obj |-> "none", pre |-> NoResult, fn |-> "none",
     fn2 |-> "none", d |-> NoValue, fresh |-> FALSE]

Init ==
    /\ ndebug \in BOOLEAN
    /\ \E how \in Factories, t \in Kinds, e \in Kinds, i \in Ids :
          /\ made = [how |-> how,
                     v |-> Payload(IF how \in {"make_ok", "make_ok_with"} THEN t ELSE e, i)]
          /\ res = [o \in Objs |-> IF o = "r" THEN Construct(how, t, e, i) ELSE NoResult]
    /\ status = "running"
    /\ ret = NoValue
    /\ retRef = "none"
    /\ dflt = NoValue
    /\ calls = <<>>
    /\ copied = 0
    /\ consumed = {}
    /\ taken = [o \in Objs |-> NoValue]
    /\ last = NoCall

\* a call of accessor op on object o with argument d, whose outcome is out
Access(op, o, d, out, consuming) ==
    /\ status = "running"
    /\ res[o] # NoResult
    /\ status' = out.status
    /\ res' = [res EXCEPT ![o] = out.self]
    /\ ret' = out.ret
    /\ retRef' = "none"
    /\ dflt' = out.dflt
    /\ copied' = 0
    /\ consumed' = IF consuming THEN consumed \cup {o} ELSE consumed
    /\ taken' = IF op \in {"unwrap", "unwrap_err"} /\ out.status = "running"
                 THEN [taken EXCEPT ![o] = out.ret] ELSE taken
    /\ calls' = <<>>
    /\ last' = [NoCall EXCEPT !.op = op, !.obj = o, !.pre = res[o], !.d = d,
                              !.fresh = o \notin consumed]
    /\ UNCHANGED <<ndebug, made>>

IsOk(o) == Access("is_ok", o, NoValue, Outcome("running", Bool(is_ok(res[o])), res[o], NoValue), FALSE)

IsErr(o) == Access("is_err", o, NoValue, Outcome("running", Bool(is_err(res[o])), res[o], NoValue), FALSE)

Unwrap(o) == Access("unwrap", o, NoValue, unwrap(res[o], ndebug), TRUE)

UnwrapOr(o, i) ==
    LET d == Payload(res[o].T, i) IN
    Access("unwrap_or", o, d, unwrap_or(res[o], ndebug, d), TRUE)

UnwrapErr(o) == Access("unwrap_err", o, NoValue, unwrap_err(res[o], ndebug), TRUE)

RefOk(o) == Access("ref_ok", o, NoValue, ref_ok(res[o], ndebug), FALSE)

RefOkConst(o) == Access("ref_ok_const", o, NoValue, ref_ok_const(res[o], ndebug), FALSE)

RefErr(o) == Access("ref_err", o, NoValue, ref_err(res[o], ndebug), FALSE)

RefErrConst(o) == Access("ref_err_const", o, NoValue, ref_err_const(res[o], ndebug), FALSE)

\* auto m = r.op(f): a consuming combinator on r whose outcome is out and whose
\* product is bound to m; passThrough is the payload kind the combinator
\* copy-constructs on its untouched branch, so the call compiles only for a
\* copy-constructible one
Combine(op, f, out, passThrough) ==
    /\ status = "running"
    /\ CopyConstructible(passThrough)
    /\ status' = out.status
    /\ res' = [res EXCEPT !["r"] = out.self, !["m"] = out.out]
    /\ ret' = NoValue
    /\ retRef' = "none"
    /\ dflt' = NoValue
    /\ calls' = out.calls
    /\ copied' = out.copied
    /\ consumed' = (consumed \ {"m"}) \cup {"r"}
    /\ taken' = [taken EXCEPT !["m"] = NoValue]
    /\ last' = [NoCall EXCEPT !.op = op, !.obj = "r", !.pre = res["r"], !.fn = f,
                              !.fresh = "r" \notin consumed]
    /\ UNCHANGED <<ndebug, made>>

Map(f) == Combine("map", f, map(res["r"], f), res["r"].E)

MapErr(f) == Combine("map_err", f, map_err(res["r"], f), res["r"].T)

AndThen(g) == Combine("and_then", g, and_then(res["r"], g), res["r"].E)

\* a call, or a chain of two calls, of an observing combinator on object o,
\* whose outcome is out
Inspect(op, o, f, g, out) ==
    /\ status = "running"
    /\ res[o] # NoResult
    /\ res' = out.res
    /\ calls' = out.calls
    /\ retRef' = out.ref
    /\ ret' = NoValue
    /\ dflt' = NoValue
    /\ copied' = 0
    /\ last' = [NoCall EXCEPT !.op = op, !.obj = o, !.pre = res[o], !.fn = f, !.fn2 = g,
                              !.fresh = o \notin consumed]
    /\ UNCHANGED <<ndebug, status, consumed, taken, made>>

InspectOk(o, f) == Inspect("inspect_ok", o, f, "none", inspect_ok(res, <<>>, o, f))

InspectErr(o, f) == Inspect("inspect_err", o, f, "none", inspect_err(res, <<>>, o, f))

\* r.inspect_ok(f).inspect_ok(g): the second call is made through the
\* reference the first returned
InspectOkChain(o, f, g) ==
    LET first == inspect_ok(res, <<>>, o, f) IN
    Inspect("inspect_ok_chain", o, f, g, inspect_ok(first.res, first.calls, first.ref, g))

\* r.inspect_err(f).inspect_err(g)
InspectErrChain(o, f, g) ==
    LET first == inspect_err(res, <<>>, o, f) IN
    Inspect("inspect_err_chain", o, f, g, inspect_err(first.res, first.calls, first.ref, g))

Next ==
    \/ \E o \in Objs : IsOk(o)
    \/ \E o \in Objs : IsErr(o)
    \/ \E o \in Objs : Unwrap(o)
    \/ \E o \in Objs, i \in Ids : UnwrapOr(o, i)
    \/ \E o \in Objs : UnwrapErr(o)
    \/ \E o \in Objs : RefOk(o)
    \/ \E o \in Objs : RefOkConst(o)
    \/ \E o \in Objs : RefErr(o)
    \/ \E o \in Objs : RefErrConst(o)
    \/ \E f \in MapFns : Map(f)
    \/ \E f \in MapFns : MapErr(f)
    \/ \E g \in ThenFns : AndThen(g)
    \/ \E o \in Objs, f \in InspectFns : InspectOk(o, f)
    \/ \E o \in Objs, f \in InspectFns : InspectErr(o, f)
    \/ \E o \in Objs, f, g \in InspectFns : InspectOkChain(o, f, g)
    \/ \E o \in Objs, f, g \in InspectFns : InspectErrChain(o, f, g)

Spec == Init /\ [][Next]_vars

(* ------------------------------ claims -------------------------------- *)

\* the last call returned to its caller
Returned(op) == last.op = op /\ status = "running"

OkFactories == {"make_ok", "make_ok_with"}

Accessors == {"unwrap", "unwrap_err", "ref_ok", "ref_ok_const", "ref_err", "ref_err_const"}

OkAccessors == {"unwrap", "ref_ok", "ref_ok_const"}

ErrAccessors == {"unwrap_err", "ref_err", "ref_err_const"}

\* C1: every Result that exists and that no ownership-taking operation was
\* called on holds exactly one of Ok and Err: exactly one of is_ok() and
\* is_err() is true and the active alternative is never monostate, whatever
\* non-consuming calls were made on it.
C1_ExactlyOneTag ==
    \A o \in Objs :
        (res[o] # NoResult /\ o \notin consumed) =>
            /\ is_ok(res[o]) # is_err(res[o])
            /\ res[o].index # Monostate

\* a non-consuming call returned on an r nothing has consumed
C1_Witness ==
    /\ Returned("inspect_err")
    /\ last.obj = "r"
    /\ "r" \notin consumed
    /\ is_err(res["r"])
    /\ calls # <<>>

\* C2: on an r built from make_ok(v), is_ok() is true and the first unwrap()
\* returns v; on an r built from make_err(e), is_err() is true and the first
\* unwrap_err() returns e.
C2_RoundTrip ==
    (last.obj = "r" /\ last.fresh) =>
        /\ (last.op = "is_ok" /\ made.how \in OkFactories) => ret = Bool(TRUE)
        /\ (last.op = "unwrap" /\ made.how \in OkFactories) =>
               (status = "running" /\ ret = made.v)
        /\ (last.op = "is_err" /\ made.how \notin OkFactories) => ret = Bool(TRUE)
        /\ (last.op = "unwrap_err" /\ made.how \notin OkFactories) =>
               (status = "running" /\ ret = made.v)

\* the first unwrap() of a move-only payload built in place returned it
C2_Witness ==
    /\ Returned("unwrap")
    /\ last.obj = "r"
    /\ last.fresh
    /\ made.how = "make_ok_with"
    /\ made.v.kind = "obj"
    /\ ret = made.v

\* C3: unwrap_or(d) always returns; on a success Result it returns the
\* payload and leaves d alone, on a failure Result it returns d (moved out of
\* the caller's object) and leaves the Result alone.
C3_UnwrapOr ==
    last.op = "unwrap_or" =>
        /\ status = "running"
        /\ is_ok(last.pre) =>
               /\ ret = last.pre.value
               /\ dflt = last.d
               /\ (last.pre.value # last.d => ret # last.d)
        /\ is_err(last.pre) =>
               /\ ret = last.d
               /\ dflt = MovedFrom(last.d)
               /\ res[last.obj] = last.pre

\* unwrap_or on a failure Result returned a default that differs from the
\* failure payload
C3_Witness ==
    /\ Returned("unwrap_or")
    /\ is_err(last.pre)
    /\ ret = last.d
    /\ last.d.id # last.pre.value.id

\* C4: map(f) on Ok(v) invokes f once, on v, and yields Ok(f(v)); on Err(e) it
\* invokes nothing and yields Err(e).  map_err(f) on Err(e) invokes f once, on
\* e, and yields Err(f(e)); on Ok(v) it invokes nothing and yields Ok(v).
C4_MapOwnBranch ==
    /\ Returned("map") =>
           IF is_ok(last.pre)
           THEN /\ calls = <<Call(last.fn, last.pre.value)>>
                /\ is_ok(res["m"])
                /\ res["m"].value = Apply(last.fn, last.pre.value)
           ELSE /\ calls = <<>>
                /\ is_err(res["m"])
                /\ res["m"].value = last.pre.value
    /\ Returned("map_err") =>
           IF is_err(last.pre)
           THEN /\ calls = <<Call(last.fn, last.pre.value)>>
                /\ is_err(res["m"])
                /\ res["m"].value = Apply(last.fn, last.pre.value)
           ELSE /\ calls = <<>>
                /\ is_ok(res["m"])
                /\ res["m"].value = last.pre.value
    /\ last.op \in {"map", "map_err"} => status = "running"

\* map on a failure Result returned the failure, and f was not invoked
C4_Witness ==
    /\ Returned("map")
    /\ is_err(last.pre)
    /\ is_err(res["m"])
    /\ calls = <<>>

\* C5: and_then(f) on Ok(v) invokes f once, on v, and returns the Result f
\* returned; on Err(e) it invokes nothing and returns Err(e).
C5_AndThenBind ==
    /\ Returned("and_then") =>
           IF is_ok(last.pre)
           THEN /\ calls = <<Call(last.fn, last.pre.value)>>
                /\ res["m"] = ApplyThen(last.fn, last.pre.value, last.pre.E)
           ELSE /\ calls = <<>>
                /\ is_err(res["m"])
                /\ res["m"].value = last.pre.value
    /\ last.op = "and_then" => status = "running"

\* and_then on a success Result returned the failure its callback returned
C5_Witness ==
    /\ Returned("and_then")
    /\ is_ok(last.pre)
    /\ last.fn = "err_fn"
    /\ is_err(res["m"])
    /\ Len(calls) = 1

\* the invocations a chain of inspect calls with callbacks fs makes on a
\* Result whose payload p is on the matching branch
Invocations(matching, fs, p) ==
    IF matching THEN [k \in 1..Len(fs) |-> Call(fs[k], p)] ELSE <<>>

\* C6: inspect_ok (inspect_err) invokes its callback once on a success
\* (failure) Result and never on the other branch, returns a reference to the
\* Result it was called on and leaves that Result as it was; in a chain the
\* callbacks run in call order, each on the same payload.
C6_InspectFrame ==
    /\ last.op \in {"inspect_ok", "inspect_err", "inspect_ok_chain", "inspect_err_chain"} =>
           /\ status = "running"
           /\ retRef = last.obj
           /\ res[last.obj] = last.pre
    /\ last.op = "inspect_ok" =>
           calls = Invocations(is_ok(last.pre), <<last.fn>>, last.pre.value)
    /\ last.op = "inspect_err" =>
           calls = Invocations(is_err(last.pre), <<last.fn>>, last.pre.value)
    /\ last.op = "inspect_ok_chain" =>
           calls = Invocations(is_ok(last.pre), <<last.fn, last.fn2>>, last.pre.value)
    /\ last.op = "inspect_err_chain" =>
           calls = Invocations(is_err(last.pre), <<last.fn, last.fn2>>, last.pre.value)

\* a chain of two different callbacks ran on a success Result
C6_Witness ==
    /\ Returned("inspect_ok_chain")
    /\ is_ok(last.pre)
    /\ last.fn = "set"
    /\ last.fn2 = "add"
    /\ Len(calls) = 2

\* C7: an accessor called on the other branch returns no value and ends the
\* program, by the failed assertion when assertions are enabled; called on
\* its own branch it returns.
C7_WrongStateAborts ==
    /\ last.op \in OkAccessors =>
           IF is_ok(last.pre)
           THEN status = "running"
           ELSE /\ status # "running"
                /\ ret = NoValue
                /\ ~ndebug => status = "assert_failed"
    /\ last.op \in ErrAccessors =>
           IF is_err(last.pre)
           THEN status = "running"
           ELSE /\ status # "running"
                /\ ret = NoValue
                /\ ~ndebug => status = "assert_failed"

\* ref_err() const on a success Result failed its assertion
C7_Witness ==
    /\ last.op = "ref_err_const"
    /\ is_ok(last.pre)
    /\ ~ndebug
    /\ status = "assert_failed"

\* C8 as stated: with assertions enabled, an accessor called on a Result that
\* an ownership-taking operation was called on before fails its assertion.
C8_ReuseAborts ==
    (last.op \in Accessors /\ ~last.fresh /\ ~ndebug) => status = "assert_failed"

\* C8 amended: consuming a Result never changes its tag, so an accessor
\* called on an r consumed before aborts exactly when it is the accessor of
\* the branch r was not built on; on r's branch it returns what the
\* consumption left in r.
C8_ReuseByTag ==
    (last.op \in Accessors /\ last.obj = "r" /\ ~last.fresh) =>
        /\ is_ok(last.pre) <=> made.how \in OkFactories
        /\ is_err(last.pre) <=> made.how \notin OkFactories
        /\ status = "running" <=>
               (last.op \in OkAccessors <=> made.how \in OkFactories)
        /\ status = "running" =>
               ret = IF last.op \in {"unwrap", "unwrap_err"}
                     THEN MovedTo(last.pre.value) ELSE last.pre.value

\* ref_ok() returned on an r that map consumed
C8_Witness ==
    /\ Returned("ref_ok")
    /\ last.obj = "r"
    /\ ~last.fresh
    /\ res["m"] # NoResult
    /\ ~ndebug

\* C9 as stated: no accessor and no combinator copy-constructs a payload.
C9_NoPayloadCopy ==
    last.op \in {"unwrap", "unwrap_err", "unwrap_or", "map", "map_err", "and_then",
                 "inspect_ok", "inspect_err"} => copied = 0

\* C10: unwrap() (unwrap_err()) returns the payload and leaves the Result on
\* the same branch, holding the payload's moved-from value; a ref_ok()
\* (ref_err()) after it reads the sentinel for a NoncopyableObject payload and
\* the value unwrap returned for an int payload.
C10_UnwrapKeepsTag ==
    /\ Returned("unwrap") =>
           /\ ret = last.pre.value
           /\ is_ok(res[last.obj]) /\ ~is_err(res[last.obj])
           /\ res[last.obj].value.kind = "obj" => res[last.obj].value.id = Sentinel
           /\ res[last.obj].value.kind = "int" => res[last.obj].value = ret
    /\ Returned("unwrap_err") =>
           /\ ret = last.pre.value
           /\ is_err(res[last.obj]) /\ ~is_ok(res[last.obj])
           /\ res[last.obj].value.kind = "obj" => res[last.obj].value.id = Sentinel
           /\ res[last.obj].value.kind = "int" => res[last.obj].value = ret
    /\ (last.op \in {"ref_ok", "ref_ok_const", "ref_err", "ref_err_const"}
          /\ status = "running" /\ taken[last.obj] # NoValue) =>
           ret = IF ret.kind = "obj" THEN Payload("obj", Sentinel) ELSE taken[last.obj]

\* ref_ok() read the sentinel from an r whose NoncopyableObject unwrap() took
C10_Witness ==
    /\ Returned("ref_ok")
    /\ last.obj = "r"
    /\ taken["r"].kind = "obj"
    /\ taken["r"].id # Sentinel
    /\ ret.id = Sentinel

====
